---- MODULE Spec2Model ----
(***************************************************************************)
(* The quantum vault program: a dispatcher (lib.rs) and the three          *)
(* transitions Open, Split and Close over accounts that a host ledger      *)
(* owns.  Split is modelled from instructions/split.rs; Open and Close,    *)
(* whose handlers are not among the sources, are modelled from the         *)
(* specification's sections 4.2 and 4.4; the client side (address search,  *)
(* message assembly, signing, funding) is modelled from tests/test.rs.     *)
(*                                                                         *)
(* An invocation runs in steps: ProcessInstruction dispatches, parses and  *)
(* verifies; each later step is one write of the handler.  The state at    *)
(* pc = "returned" is what the core itself left behind; HostSettle is the  *)
(* ledger committing it or rolling it back.                                *)
(***************************************************************************)
EXTENDS Integers, Sequences, FiniteSets, TLC

VARIABLES
    lamports,   \* balance of every account
    owner,      \* owning program of every account: "system" or "program"
    pc,         \* position of the invocation in flight
    call,       \* the transition the core is running, with its accounts and data
    sent,       \* what the client submitted: tag, reference count, length, and how
                \* its proof and address relate to the keys and their records
    result,     \* what process_instruction returned
    pre,        \* balances when the invocation started
    preOwner,   \* owners when the invocation started
    recovered,  \* whether recover_pubkey ran in this invocation
    accepted,   \* identity digests whose proof authorized the spending of a record
    destroyed,  \* addresses of the records spent and destroyed
    rolled      \* addresses of the open records a committed Split refunded into

vars == <<lamports, owner, pc, call, sent, result, pre, preOwner, recovered,
          accepted, destroyed, rolled>>

(***************************************************************************)
(* Bounds of the model.                                                    *)
(***************************************************************************)
\* lamports in circulation, all with the payer at the start
Supply == 2
\* largest ordinary amount a request names (the largest u64 is always added)
MaxAmount == 1

(***************************************************************************)
(* Widths and constants of the program.                                    *)
(***************************************************************************)
\* bits of a lamport amount: u64 in the program, scaled down here
U64Bits == 4
U64Modulus == 2 ^ U64Bits
U64Max == U64Modulus - 1
\* the amount field is [u8; 8]; here one bit per modelled byte
AmountBytes == U64Bits
ByteBase == 2

SIGNATURE_LEN == 896
BUMP_LEN == 1
AMOUNT_LEN == 8
HASH_LEN == 32
\* core::mem::size_of::<SplitVaultInstructionData>()
SplitDataLen == SIGNATURE_LEN + AMOUNT_LEN + BUMP_LEN
CloseDataLen == SIGNATURE_LEN + BUMP_LEN
OpenDataLen == HASH_LEN + BUMP_LEN
SplitMessageLen == 72
CloseMessageLen == 32

OPEN_DISCRIMINATOR == 0
SPLIT_DISCRIMINATOR == 1
CLOSE_DISCRIMINATOR == 2

\* the bump find_program_address settles on
CanonicalBump == 255
Bumps == {CanonicalBump - 1, CanonicalBump}
\* rent-exempt minimum of an empty account, scaled down (890880 in the tests)
RentExemptMinimum == 1

(***************************************************************************)
(* Amount encoding.                                                        *)
(***************************************************************************)
\* u64::to_le_bytes
ToLeBytes(n) == [i \in 1..AmountBytes |-> (n \div (ByteBase ^ (i - 1))) % ByteBase]

RECURSIVE LeValue(_, _)
LeValue(bytes, i) ==
    IF i > Len(bytes) THEN 0
    ELSE bytes[i] * (ByteBase ^ (i - 1)) + LeValue(bytes, i + 1)

\* u64::from_le_bytes
FromLeBytes(bytes) == LeValue(bytes, 1)

SaturatingSub_NoSubtract(a, b) == a

\* u64::wrapping_sub in the place of saturating_sub
SaturatingSub_Wrapping(a, b) == (a - b) % U64Modulus

\* u64::saturating_sub
SaturatingSub(a, b) == IF a >= b THEN a - b ELSE 0

\* the outcomes of a u64 `+=`: the sum, or on overflow what the build makes of
\* it: the wrapped sum (overflow checks off) or a panic (overflow checks on)
AddU64(a, b) ==
    IF a + b < U64Modulus
    THEN {[panic |-> FALSE, value |-> a + b]}
    ELSE {[panic |-> FALSE, value |-> (a + b) % U64Modulus],
          [panic |-> TRUE, value |-> a]}

(***************************************************************************)
(* One-time signatures and address derivation.                             *)
(***************************************************************************)
Keys == {1, 2}
NoKey == 0

\* WinternitzPrivkey::pubkey: one public key per private key
Pubkey(k) == 100 + k
\* WinternitzPubkey::merklize: one 32-byte root per public key
Merklize(pk) == 1000 + pk
NoHash == Merklize(Pubkey(NoKey))

\* WinternitzPrivkey::sign
Sign(k, message) == [key |-> k, msg |-> message]
NoMessage == <<0>>
GarbageSignature == Sign(NoKey, NoMessage)

\* WinternitzSignature::recover_pubkey: the signer's public key when the
\* message is the signed one, an unrelated key otherwise
RecoverPubkey(sig, message) ==
    IF sig.key # NoKey /\ sig.msg = message THEN Pubkey(sig.key) ELSE Pubkey(NoKey)

\* bumps are one byte
BumpRange == 256
\* hashv(&[hash, bump, crate::ID, b"ProgramDerivedAddress"]): a hash without
\* collisions, of which the program identifier and the marker are fixed inputs
DeriveAddress(hash, bump) == hash * BumpRange + bump

\* Pubkey::find_program_address(&[hash], &program_id)
FindProgramAddress(hash) == <<DeriveAddress(hash, CanonicalBump), CanonicalBump>>

(***************************************************************************)
(* Accounts.                                                               *)
(***************************************************************************)
\* addresses of keypair accounts, below every derived address
Payer == 1
SplitWallet == 2
RefundWallet == 3
SystemProgram == 0
NoAddr == -1

Vault(k) == FindProgramAddress(Merklize(Pubkey(k)))[1]
Vaults == {Vault(k) : k \in Keys}
Targets == {SplitWallet, RefundWallet} \cup Vaults
Accounts == {Payer} \cup Targets

RECURSIVE SumOver(_, _)
SumOver(S, f) ==
    IF S = {} THEN 0
    ELSE LET a == CHOOSE x \in S : TRUE IN f[a] + SumOver(S \ {a}, f)

Amounts == (0..MaxAmount) \cup {U64Max}

(***************************************************************************)
(* The client: what the holder of a key signs and submits.                 *)
(***************************************************************************)
\* the 72-byte message the client signs for a Split:
\* amount (LE) | split pubkey | refund pubkey
ClientSplitMessage(amount, splitKey, refundKey) ==
    <<SplitMessageLen, ToLeBytes(amount), splitKey, refundKey>>

\* the 32-byte message the client signs for a Close: the refund pubkey
ClientCloseMessage(refundKey) == <<CloseMessageLen, refundKey>>

\* instruction data: the tag byte (absent in an empty payload), then the
\* payload, kept as its length and the fields the client lays out in it and a
\* handler slices from it (signature | bump | amount for Split, signature |
\* bump for Close, hash | bump for Open)
IxData(tag, len, sig, bump, amountBytes, hash) ==
    [tag |-> tag, len |-> len, signature |-> sig, bump |-> bump,
     amount |-> amountBytes, hash |-> hash]

Request(accounts, data) == [accounts |-> accounts, data |-> data]

OtherAmount(a) == IF a = 0 THEN 1 ELSE 0

\* the signatures a Split request over (amount, split, refund) may carry: by
\* either key, over the request's own message, over the message with the
\* targets swapped, over another amount, or over the Close message of its
\* refund target or of its split target; or bytes no key produced
SplitSignatures(amount, splitKey, refundKey) ==
    {Sign(k, m) : k \in Keys,
                  m \in {ClientSplitMessage(amount, splitKey, refundKey),
                         ClientSplitMessage(amount, refundKey, splitKey),
                         ClientSplitMessage(OtherAmount(amount), splitKey, refundKey),
                         ClientCloseMessage(refundKey),
                         ClientCloseMessage(splitKey)}}
    \cup {GarbageSignature}

CloseSignatures(refundKey) ==
    {Sign(k, m) : k \in Keys,
                  m \in {ClientCloseMessage(refundKey)}
                        \cup {ClientCloseMessage(t) : t \in Targets}
                        \cup {ClientSplitMessage(0, refundKey, refundKey)}}
    \cup {GarbageSignature}

\* every signature under the right bump, and the two keys' signatures over
\* the request's own message under a wrong bump
SplitProofs(amount, splitKey, refundKey) ==
    {<<sig, CanonicalBump>> : sig \in SplitSignatures(amount, splitKey, refundKey)}
    \cup {<<Sign(k, ClientSplitMessage(amount, splitKey, refundKey)), b>> :
             k \in Keys, b \in Bumps}

SplitRequests ==
    UNION {{Request(<<v, s, r>>,
                    IxData(<<SPLIT_DISCRIMINATOR>>, SplitDataLen, p[1], p[2], ToLeBytes(a),
                           NoHash)) :
               v \in Vaults \cup {SplitWallet}, p \in SplitProofs(a, s, r)} :
           s \in Targets, r \in Targets, a \in Amounts}

\* Split requests of the wrong payload length or reference count, otherwise
\* what the owner of a key would submit
MalformedSplitRequests ==
    LET k == CHOOSE x \in Keys : TRUE
        sig == Sign(k, ClientSplitMessage(1, SplitWallet, RefundWallet))
        good == <<Vault(k), SplitWallet, RefundWallet>>
    IN {Request(acc, IxData(<<SPLIT_DISCRIMINATOR>>, len, sig, CanonicalBump,
                            ToLeBytes(1), NoHash)) :
            acc \in {good, SubSeq(good, 1, 2), good \o <<RefundWallet>>},
            len \in {SplitDataLen - 1, SplitDataLen, SplitDataLen + 1, 0}}

CloseRequests ==
    UNION {{Request(<<v, r>>,
                    IxData(<<CLOSE_DISCRIMINATOR>>, CloseDataLen, sig, b, ToLeBytes(0),
                           NoHash)) :
               v \in Targets, b \in Bumps, sig \in CloseSignatures(r)} :
           r \in Targets}

MalformedCloseRequests ==
    LET k == CHOOSE x \in Keys : TRUE
        sig == Sign(k, ClientCloseMessage(RefundWallet))
        good == <<Vault(k), RefundWallet>>
    IN {Request(acc, IxData(<<CLOSE_DISCRIMINATOR>>, len, sig, CanonicalBump,
                            ToLeBytes(0), NoHash)) :
            acc \in {good, SubSeq(good, 1, 1), good \o <<SplitWallet>>},
            len \in {CloseDataLen - 1, CloseDataLen, CloseDataLen + 1}}

OpenRequests ==
    {Request(<<Payer, v, SystemProgram>>,
             IxData(<<OPEN_DISCRIMINATOR>>, OpenDataLen, GarbageSignature, b, ToLeBytes(0),
                    Merklize(Pubkey(k)))) :
        v \in Targets, b \in Bumps, k \in Keys}

MalformedOpenRequests ==
    LET k == CHOOSE x \in Keys : TRUE
        good == <<Payer, Vault(k), SystemProgram>>
    IN {Request(acc, IxData(<<OPEN_DISCRIMINATOR>>, len, GarbageSignature, CanonicalBump,
                            ToLeBytes(0), Merklize(Pubkey(k)))) :
            acc \in {good, SubSeq(good, 1, 2)},
            len \in {OpenDataLen - 1, OpenDataLen, OpenDataLen + 1}}

\* requests with a tag no transition has, and the empty payload
UnroutedRequests ==
    LET k == CHOOSE x \in Keys : TRUE
        sig == Sign(k, ClientSplitMessage(1, SplitWallet, RefundWallet))
    IN {Request(<<Vault(k), SplitWallet, RefundWallet>>,
                IxData(tag, len, sig, CanonicalBump, ToLeBytes(1), NoHash)) :
            tag \in {<<>>, <<3>>, <<255>>}, len \in {0, SplitDataLen}}

Requests ==
    SplitRequests \cup MalformedSplitRequests \cup CloseRequests \cup MalformedCloseRequests
    \cup OpenRequests \cup MalformedOpenRequests \cup UnroutedRequests

\* a Split request as the owner of a key builds it: the record is the key's
\* derived address with its bump, the proof is the key's signature over the
\* message of the request's own amount and targets
SplitAuthentic(req) ==
    /\ Len(req.accounts) = 3
    /\ req.data.len = SplitDataLen
    /\ \E k \in Keys :
          /\ <<req.accounts[1], req.data.bump>> = FindProgramAddress(Merklize(Pubkey(k)))
          /\ req.data.signature =
                Sign(k, ClientSplitMessage(FromLeBytes(req.data.amount),
                                           req.accounts[2], req.accounts[3]))

CloseAuthentic(req) ==
    /\ Len(req.accounts) = 2
    /\ req.data.len = CloseDataLen
    /\ \E k \in Keys :
          /\ <<req.accounts[1], req.data.bump>> = FindProgramAddress(Merklize(Pubkey(k)))
          /\ req.data.signature = Sign(k, ClientCloseMessage(req.accounts[2]))

OpenAuthentic(req) ==
    /\ Len(req.accounts) = 3
    /\ req.data.len = OpenDataLen
    /\ <<req.accounts[2], req.data.bump>> = FindProgramAddress(req.data.hash)

(***************************************************************************)
(* The state of an invocation.                                             *)
(***************************************************************************)
NoCall ==
    [kind |-> "none", vault |-> NoAddr, split |-> NoAddr, refund |-> NoAddr,
     amount |-> ToLeBytes(0), hash |-> NoHash]

\* the transition whose message a signature was made over, by its shape
MessageKind(message) ==
    IF message = NoMessage THEN "none"
    ELSE IF message[1] = SplitMessageLen THEN "split"
    ELSE "close"

\* the key that made the request's signature, when it is the key whose record
\* (derived address and bump) the request names
RecordSigner(req) ==
    IF /\ Len(req.accounts) >= 1
       /\ req.data.signature.key # NoKey
       /\ <<req.accounts[1], req.data.bump>>
             = FindProgramAddress(Merklize(Pubkey(req.data.signature.key)))
    THEN req.data.signature.key
    ELSE NoKey

\* the address an Open request names is the one its digest and bump derive
OpenDerived(req) ==
    /\ Len(req.accounts) >= 2
    /\ req.accounts[2] = req.data.hash * BumpRange + req.data.bump

NoSent ==
    [tag |-> -1, nacc |-> 0, len |-> 0, authentic |-> FALSE,
     signedOver |-> "none", signer |-> NoKey, derived |-> FALSE]

NoTag == -1

Sent(req) ==
    LET tag == IF req.data.tag = <<>> THEN NoTag ELSE req.data.tag[1]
    IN [tag |-> tag, nacc |-> Len(req.accounts), len |-> req.data.len,
        authentic |-> CASE tag = SPLIT_DISCRIMINATOR -> SplitAuthentic(req)
                        [] tag = CLOSE_DISCRIMINATOR -> CloseAuthentic(req)
                        [] tag = OPEN_DISCRIMINATOR -> OpenAuthentic(req)
                        [] OTHER -> FALSE,
        signedOver |-> MessageKind(req.data.signature.msg),
        signer |-> RecordSigner(req),
        derived |-> tag = OPEN_DISCRIMINATOR /\ OpenDerived(req)]

Init ==
    /\ lamports = [a \in Accounts |-> IF a = Payer THEN Supply ELSE 0]
    /\ owner = [a \in Accounts |-> "system"]
    /\ pc = "idle"
    /\ call = NoCall
    /\ sent = NoSent
    /\ result = "none"
    /\ pre = lamports
    /\ preOwner = owner
    /\ recovered = FALSE
    /\ accepted = {}
    /\ destroyed = {}
    /\ rolled = {}

\* the invocation returns err, the handler having written nothing
Returned(kind, err) ==
    /\ pc' = "returned"
    /\ result' = err
    /\ call' = [NoCall EXCEPT !.kind = kind]
    /\ UNCHANGED <<lamports, owner>>

(***************************************************************************)
(* Dispatcher (lib.rs).                                                    *)
(***************************************************************************)
Dispatch_SplitOnly(data) ==
    IF data.tag # <<>> /\ data.tag[1] = SPLIT_DISCRIMINATOR THEN "split" ELSE "reject"

Dispatch_DefaultToSplit(data) ==
    IF data.tag = <<>> THEN "reject"
    ELSE IF data.tag[1] = OPEN_DISCRIMINATOR THEN "open"
    ELSE IF data.tag[1] = CLOSE_DISCRIMINATOR THEN "close"
    ELSE "split"

\* match instruction_data.split_first()
Dispatch(data) ==
    IF data.tag = <<>> THEN "reject"
    ELSE IF data.tag[1] = OPEN_DISCRIMINATOR THEN "open"
    ELSE IF data.tag[1] = SPLIT_DISCRIMINATOR THEN "split"
    ELSE IF data.tag[1] = CLOSE_DISCRIMINATOR THEN "close"
    ELSE "reject"

(***************************************************************************)
(* Split (instructions/split.rs).                                          *)
(***************************************************************************)
\* the pattern [vault, split, refund, ..], which takes the first three of more
SplitVaultAccountsTryFrom_AtLeast(accounts) ==
    IF Len(accounts) < 3 THEN "NotEnoughAccountKeys" ELSE "none"

\* SplitVaultAccounts::try_from: let [vault, split, refund] = accounts else ..
SplitVaultAccountsTryFrom(accounts) ==
    IF Len(accounts) # 3 THEN "NotEnoughAccountKeys" ELSE "none"

SplitVaultInstructionDataTryFrom_AtLeast(data) ==
    IF data.len < SplitDataLen THEN "InvalidInstructionData" ELSE "none"

\* SplitVaultInstructionData::try_from: the length is the struct's size
SplitVaultInstructionDataTryFrom(data) ==
    IF data.len # SplitDataLen THEN "InvalidInstructionData" ELSE "none"

\* SplitVault::try_from: the accounts first, then the data
SplitVaultTryFrom(req) ==
    IF SplitVaultAccountsTryFrom(req.accounts) # "none"
    THEN SplitVaultAccountsTryFrom(req.accounts)
    ELSE SplitVaultInstructionDataTryFrom(req.data)

\* the Split message reduced to the refund key, the shape of a Close message
SplitMessage_RefundOnly(amountBytes, splitKey, refundKey) ==
    <<CloseMessageLen, refundKey>>

SplitMessage_Swapped(amountBytes, splitKey, refundKey) ==
    <<SplitMessageLen, amountBytes, refundKey, splitKey>>

\* the 72-byte message process assembles: amount | split key | refund key
SplitMessage(amountBytes, splitKey, refundKey) ==
    <<SplitMessageLen, amountBytes, splitKey, refundKey>>

\* signature.recover_pubkey(&message).merklize()
SplitRecoveredHash(req) ==
    Merklize(RecoverPubkey(req.data.signature,
                           SplitMessage(req.data.amount, req.accounts[2], req.accounts[3])))

\* the PDA equivalence check: hashv(hash, bump, ID, marker) against vault.key()
SplitAddressMatches(req) ==
    DeriveAddress(SplitRecoveredHash(req), req.data.bump) = req.accounts[1]

BorrowFails_OnAlias(first, second) == first = second

\* try_borrow_mut_lamports()? on the account `second`, after the statement
\* that borrowed `first`: every RefMut is a temporary dropped at the end of its
\* statement and the handler holds no other borrow, so none is outstanding
BorrowFails(first, second) == FALSE

\* SplitVault::try_from, then process up to the address check
SplitVaultBegin(req) ==
    LET err == SplitVaultTryFrom(req)
    IN IF err # "none"
       THEN Returned("split", err) /\ recovered' = FALSE
       ELSE /\ recovered' = TRUE
            /\ IF ~SplitAddressMatches(req)
               THEN Returned("split", "MissingRequiredSignature")
               ELSE /\ pc' = "verified"
                    /\ result' = "none"
                    /\ call' = [kind |-> "split", vault |-> req.accounts[1],
                                split |-> req.accounts[2], refund |-> req.accounts[3],
                                amount |-> req.data.amount,
                                hash |-> SplitRecoveredHash(req)]
                    /\ UNCHANGED <<lamports, owner>>

\* the first credit with the record closed before it instead of last
SplitCreditSplit_ClosesFirst ==
    /\ pc = "verified"
    /\ call.kind = "split"
    /\ pc' = "split_credited"
    /\ result' = result
    /\ lamports' = [[lamports EXCEPT ![call.vault] = 0] EXCEPT
                       ![call.split] = (@ + FromLeBytes(call.amount)) % U64Modulus]
    /\ owner' = [owner EXCEPT ![call.vault] = "system"]
    /\ UNCHANGED <<call, sent, pre, preOwner, recovered, accepted, destroyed, rolled>>

\* *split.try_borrow_mut_lamports()? += u64::from_le_bytes(amount)
SplitCreditSplit ==
    /\ pc = "verified"
    /\ call.kind = "split"
    /\ \E sum \in AddU64(lamports[call.split], FromLeBytes(call.amount)) :
          IF sum.panic
          THEN /\ pc' = "returned"
               /\ result' = "Panic"
               /\ UNCHANGED lamports
          ELSE /\ pc' = "split_credited"
               /\ result' = result
               /\ lamports' = [lamports EXCEPT ![call.split] = sum.value]
    /\ UNCHANGED <<owner, call, sent, pre, preOwner, recovered, accepted, destroyed, rolled>>

\* *refund.try_borrow_mut_lamports()? += vault.lamports().saturating_sub(amount)
SplitCreditRefund ==
    /\ pc = "split_credited"
    /\ call.kind = "split"
    /\ IF BorrowFails(call.split, call.refund)
       THEN /\ pc' = "returned"
            /\ result' = "AccountBorrowFailed"
            /\ UNCHANGED lamports
       ELSE \E sum \in AddU64(lamports[call.refund],
                              SaturatingSub(lamports[call.vault], FromLeBytes(call.amount))) :
               IF sum.panic
               THEN /\ pc' = "returned"
                    /\ result' = "Panic"
                    /\ UNCHANGED lamports
               ELSE /\ pc' = "refund_credited"
                    /\ result' = result
                    /\ lamports' = [lamports EXCEPT ![call.refund] = sum.value]
    /\ UNCHANGED <<owner, call, sent, pre, preOwner, recovered, accepted, destroyed, rolled>>

\* close() called on the refund target instead of the record
VaultClose_ClosesRefund ==
    /\ pc = "refund_credited"
    /\ call.kind \in {"split", "close"}
    /\ lamports' = [lamports EXCEPT ![call.refund] = 0]
    /\ owner' = [owner EXCEPT ![call.refund] = "system"]
    /\ pc' = "returned"
    /\ result' = "Ok"
    /\ UNCHANGED <<call, sent, pre, preOwner, recovered, accepted, destroyed, rolled>>

\* vault.close(): the account's lamports, data length and owner are zeroed
\* (the all-zero owner is the system program)
VaultClose ==
    /\ pc = "refund_credited"
    /\ call.kind \in {"split", "close"}
    /\ lamports' = [lamports EXCEPT ![call.vault] = 0]
    /\ owner' = [owner EXCEPT ![call.vault] = "system"]
    /\ pc' = "returned"
    /\ result' = "Ok"
    /\ UNCHANGED <<call, sent, pre, preOwner, recovered, accepted, destroyed, rolled>>

(***************************************************************************)
(* Close (specification 4.4): the handler is not among the sources.        *)
(***************************************************************************)
CloseVaultTryFrom(req) ==
    IF Len(req.accounts) # 2 THEN "NotEnoughAccountKeys"
    ELSE IF req.data.len # CloseDataLen THEN "InvalidInstructionData"
    ELSE "none"

\* the 32-byte message: the refund destination's address alone
CloseMessage(refundKey) == <<CloseMessageLen, refundKey>>

CloseRecoveredHash(req) ==
    Merklize(RecoverPubkey(req.data.signature, CloseMessage(req.accounts[2])))

CloseAddressMatches(req) ==
    DeriveAddress(CloseRecoveredHash(req), req.data.bump) = req.accounts[1]

CloseVaultBegin(req) ==
    LET err == CloseVaultTryFrom(req)
    IN IF err # "none"
       THEN Returned("close", err) /\ recovered' = FALSE
       ELSE /\ recovered' = TRUE
            /\ IF ~CloseAddressMatches(req)
               THEN Returned("close", "MissingRequiredSignature")
               ELSE /\ pc' = "verified"
                    /\ result' = "none"
                    /\ call' = [kind |-> "close", vault |-> req.accounts[1],
                                split |-> NoAddr, refund |-> req.accounts[2],
                                amount |-> ToLeBytes(0),
                                hash |-> CloseRecoveredHash(req)]
                    /\ UNCHANGED <<lamports, owner>>

\* the entire record balance is swept to the refund destination
CloseCreditRefund ==
    /\ pc = "verified"
    /\ call.kind = "close"
    /\ \E sum \in AddU64(lamports[call.refund], lamports[call.vault]) :
          IF sum.panic
          THEN /\ pc' = "returned"
               /\ result' = "Panic"
               /\ UNCHANGED lamports
          ELSE /\ pc' = "refund_credited"
               /\ result' = result
               /\ lamports' = [lamports EXCEPT ![call.refund] = sum.value]
    /\ UNCHANGED <<owner, call, sent, pre, preOwner, recovered, accepted, destroyed, rolled>>

(***************************************************************************)
(* Open (specification 4.2): the handler is not among the sources.         *)
(***************************************************************************)
OpenVaultTryFrom(req) ==
    IF Len(req.accounts) # 3 THEN "NotEnoughAccountKeys"
    ELSE IF req.data.len # OpenDataLen THEN "InvalidInstructionData"
    ELSE "none"

OpenAddressMatches_Always(req) == TRUE

\* the target address must equal derive(identityDigest, bump)
OpenAddressMatches(req) ==
    DeriveAddress(req.data.hash, req.data.bump) = req.accounts[2]

\* the allocator rejects an address in use and a payer short of the funding
AllocatorRejects(payer, vault) ==
    \/ lamports[vault] > 0
    \/ owner[vault] = "program"
    \/ lamports[payer] < RentExemptMinimum

\* allocates the record at the address with minimum funding from the payer;
\* nothing else is stored
OpenVault(req) ==
    LET err == OpenVaultTryFrom(req)
    IN /\ recovered' = FALSE
       /\ IF err # "none"
          THEN Returned("open", err)
          ELSE IF ~OpenAddressMatches(req)
          THEN Returned("open", "MissingRequiredSignature")
          ELSE IF AllocatorRejects(req.accounts[1], req.accounts[2])
          THEN Returned("open", "CollaboratorFailure")
          ELSE /\ pc' = "returned"
               /\ result' = "Ok"
               /\ call' = [NoCall EXCEPT !.kind = "open", !.vault = req.accounts[2],
                                         !.hash = req.data.hash]
               /\ lamports' = [lamports EXCEPT
                                 ![req.accounts[1]] = @ - RentExemptMinimum,
                                 ![req.accounts[2]] = @ + RentExemptMinimum]
               /\ owner' = [owner EXCEPT ![req.accounts[2]] = "program"]

(***************************************************************************)
(* The entrypoint and the host ledger.                                     *)
(***************************************************************************)
\* process_instruction: route by the leading tag, parse, verify
ProcessInstruction(req) ==
    /\ pc = "idle"
    /\ pre' = lamports
    /\ preOwner' = owner
    /\ sent' = Sent(req)
    /\ UNCHANGED <<accepted, destroyed, rolled>>
    /\ LET route == Dispatch(req.data)
       IN CASE route = "open" -> OpenVault(req)
            [] route = "split" -> SplitVaultBegin(req)
            [] route = "close" -> CloseVaultBegin(req)
            [] OTHER -> Returned("none", "InvalidInstructionData") /\ recovered' = FALSE

Submit == \E req \in Requests : ProcessInstruction(req)

\* a system-program transfer of one lamport from the payer
Fund(a) ==
    /\ pc = "idle"
    /\ lamports[Payer] >= 1
    /\ lamports' = [lamports EXCEPT ![Payer] = @ - 1, ![a] = @ + 1]
    /\ pre' = lamports'
    /\ UNCHANGED <<owner, pc, call, sent, result, preOwner, recovered, accepted, destroyed, rolled>>

\* the points between two steps of a handler, where the host may stop it
AbortPoint == pc \in {"verified", "split_credited", "refund_credited"}

\* the host stops the invocation between two of its steps and rolls it back
HostAbort ==
    /\ AbortPoint
    /\ lamports' = pre
    /\ owner' = preOwner
    /\ pc' = "idle"
    /\ call' = NoCall
    /\ sent' = NoSent
    /\ result' = "none"
    /\ recovered' = FALSE
    /\ UNCHANGED <<pre, preOwner, accepted, destroyed, rolled>>

\* what the ledger accepts of a program's writes: lamports are conserved, and
\* an account the program does not own is neither debited nor re-owned
LedgerAccepts ==
    /\ SumOver(Accounts, lamports) = SumOver(Accounts, pre)
    /\ call.kind \in {"split", "close"} =>
          \A a \in Accounts :
              preOwner[a] # "program" => lamports[a] >= pre[a] /\ owner[a] = preOwner[a]

Commits == pc = "returned" /\ result = "Ok" /\ LedgerAccepts

\* the invocation is a committed Split or Close of a record that was open
Spends == Commits /\ call.kind \in {"split", "close"} /\ preOwner[call.vault] = "program"

\* the invocation is a committed Split of an open record whose refund target
\* is another open record
RollsOver ==
    /\ Spends
    /\ call.kind = "split"
    /\ call.refund # call.vault
    /\ preOwner[call.refund] = "program"

\* the transaction ends: committed, or rolled back to the state it started in
HostSettle ==
    /\ pc = "returned"
    /\ lamports' = IF Commits THEN lamports ELSE pre
    /\ owner' = IF Commits THEN owner ELSE preOwner
    /\ accepted' = IF Spends THEN accepted \cup {call.hash} ELSE accepted
    /\ destroyed' = IF Spends THEN destroyed \cup {call.vault} ELSE destroyed
    /\ rolled' = IF RollsOver THEN rolled \cup {call.refund} ELSE rolled
    /\ pc' = "idle"
    /\ call' = NoCall
    /\ sent' = NoSent
    /\ result' = "none"
    /\ recovered' = FALSE
    /\ pre' = lamports'
    /\ preOwner' = owner'

Next ==
    \/ Submit
    \/ \E a \in Targets : Fund(a)
    \/ SplitCreditSplit
    \/ SplitCreditRefund
    \/ CloseCreditRefund
    \/ VaultClose
    \/ HostAbort
    \/ HostSettle

Spec == Init /\ [][Next]_vars

(***************************************************************************)
(* Properties.                                                             *)
(***************************************************************************)
TypeOK ==
    /\ lamports \in [Accounts -> 0..U64Max]
    /\ owner \in [Accounts -> {"system", "program"}]
    /\ pc \in {"idle", "verified", "split_credited", "refund_credited", "returned"}

\* the error kinds of the specification's section 7
MalformedInput == {"InvalidInstructionData", "NotEnoughAccountKeys"}
AuthorizationFailure == {"MissingRequiredSignature"}

\* nothing the invocation was given has changed since it started
Untouched == lamports = pre /\ owner = preOwner

\* the handler's address check passed: the transition struct is held
Verified == call.vault # NoAddr /\ call.kind \in {"split", "close"}

SignedAmount == FromLeBytes(call.amount)

\* C1: each owner identity authorizes at most one successful Split or Close:
\* no Split or Close commits under an identity whose proof was accepted before,
\* and between invocations no record is open whose identity's proof has been
\* accepted.
C1_OneSpendPerIdentity ==
    /\ pc = "returned" /\ Verified /\ call.hash \in accepted => ~Commits
    /\ pc = "idle" =>
          \A k \in Keys : Merklize(Pubkey(k)) \in accepted => owner[Vault(k)] # "program"

\* C2: a Split with a valid owner signature on a record opened and funded to F,
\* with amount S < F and targets other than the record, passes the address
\* check, succeeds and is committed, with S added to the split target, F - S to
\* the refund target, nothing to any other account, and the record destroyed.
C2_SplitPaysExactly ==
    /\ pc = "returned" /\ sent.tag = SPLIT_DISCRIMINATOR /\ sent.authentic
          => call.kind = "split" /\ Verified
    /\ /\ pc = "returned" /\ call.kind = "split" /\ Verified /\ sent.authentic
       /\ preOwner[call.vault] = "program"
       /\ SignedAmount < pre[call.vault]
       /\ call.vault \notin {call.split, call.refund}
       => /\ result = "Ok"
          /\ Commits
          /\ \A a \in Accounts \ {call.vault} :
                lamports[a] = pre[a]
                    + (IF a = call.split THEN SignedAmount ELSE 0)
                    + (IF a = call.refund THEN pre[call.vault] - SignedAmount ELSE 0)
          /\ lamports[call.vault] = 0
          /\ owner[call.vault] = "system"

C2_Witness ==
    /\ pc = "returned" /\ call.kind = "split" /\ Verified /\ sent.authentic
    /\ preOwner[call.vault] = "program"
    /\ 0 < SignedAmount /\ SignedAmount < pre[call.vault]
    /\ call.split = SplitWallet /\ call.refund = RefundWallet
    /\ result = "Ok"
    /\ lamports[SplitWallet] > pre[SplitWallet]
    /\ lamports[RefundWallet] > pre[RefundWallet]

\* C3: a Close with a valid owner signature over the refund address, on an open
\* record and a refund destination other than the record, passes the address
\* check, succeeds and is committed, with the record's entire balance added to
\* the refund destination, nothing to any other account, and the record
\* destroyed.
C3_CloseSweepsAll ==
    /\ pc = "returned" /\ sent.tag = CLOSE_DISCRIMINATOR /\ sent.authentic
          => call.kind = "close" /\ Verified
    /\ /\ pc = "returned" /\ call.kind = "close" /\ Verified /\ sent.authentic
       /\ preOwner[call.vault] = "program"
       /\ call.vault # call.refund
       => /\ result = "Ok"
          /\ Commits
          /\ lamports[call.refund] = pre[call.refund] + pre[call.vault]
          /\ \A a \in Accounts \ {call.vault, call.refund} : lamports[a] = pre[a]
          /\ lamports[call.vault] = 0
          /\ owner[call.vault] = "system"

C3_Witness ==
    /\ pc = "returned" /\ call.kind = "close" /\ Verified /\ sent.authentic
    /\ preOwner[call.vault] = "program"
    /\ pre[call.vault] > RentExemptMinimum
    /\ call.refund = RefundWallet
    /\ result = "Ok"
    /\ lamports[RefundWallet] = pre[RefundWallet] + pre[call.vault]

\* C4: a well-formed Split whose proof is not the signature, by the key that
\* owns the record under the supplied bump, over the message of the request's
\* own amount, split target and refund target, fails with AuthorizationFailure
\* and leaves every balance and the record untouched.
C4_WrongProofRejected ==
    /\ pc = "returned" /\ sent.tag = SPLIT_DISCRIMINATOR
    /\ sent.nacc = 3 /\ sent.len = SplitDataLen
    /\ ~sent.authentic
    => result \in AuthorizationFailure /\ Untouched

C4_Witness ==
    /\ pc = "returned" /\ sent.tag = SPLIT_DISCRIMINATOR
    /\ sent.nacc = 3 /\ sent.len = SplitDataLen
    /\ ~sent.authentic
    /\ recovered
    /\ result = "MissingRequiredSignature"
    /\ \E k \in Keys : owner[Vault(k)] = "program" /\ lamports[Vault(k)] > RentExemptMinimum

\* C5: once a record has been destroyed by a committed Split or Close, every
\* later Split or Close on its address fails: none passes the address check
\* and is committed.
C5_ReplayFails ==
    pc = "returned" /\ Verified /\ call.vault \in destroyed => ~Commits

\* the payout half alone: no later Split or Close on a destroyed record's
\* address is committed with a destination credited
C5_NoSecondPayout ==
    pc = "returned" /\ Verified /\ call.vault \in destroyed
        => ~(Commits /\ \E a \in Accounts : lamports[a] > pre[a])

C7_AbortLeavesNoPartialMovement ==
    AbortPoint =>
        \/ Untouched
        \/ /\ pc = "refund_credited"
           /\ lamports[call.vault] = 0
           /\ owner[call.vault] = "system"

\* C7 as amended: a Split or Close stopped before its first credit has changed
\* nothing; stopped after it, the credits already written are in place while
\* the record is not yet destroyed: no owner has changed and only the split
\* and refund targets' balances differ from before the call.
C7_AbortBeforeCreditLeavesNothing ==
    /\ pc = "verified" => Untouched
    /\ pc \in {"split_credited", "refund_credited"} =>
          /\ owner = preOwner
          /\ \A a \in Accounts \ {call.split, call.refund} : lamports[a] = pre[a]

C7_Witness ==
    /\ pc = "split_credited" /\ call.kind = "split"
    /\ preOwner[call.vault] = "program"
    /\ call.vault \notin {call.split, call.refund}
    /\ lamports[call.split] > pre[call.split]
    /\ lamports[call.vault] = pre[call.vault]
    /\ pre[call.vault] > 0

\* C8: between invocations, no address at which a record was destroyed holds an
\* open record again.
C8_LifecycleTerminal ==
    pc = "idle" => \A a \in destroyed : owner[a] # "program"

\* C9: the dispatcher routes tag 0 to Open, tag 1 to Split and tag 2 to Close,
\* each handler measuring the payload without the tag; any other tag and the
\* empty payload fail with MalformedInput, run no transition and change nothing.
C9_DispatchByTag ==
    pc # "idle" =>
        /\ sent.tag = 0 => call.kind = "open"
        /\ sent.tag = 1 => call.kind = "split"
        /\ sent.tag = 2 => call.kind = "close"
        /\ sent.tag = 0 /\ sent.nacc = 3 /\ sent.len = 33 /\ pc = "returned"
              => result \notin MalformedInput
        /\ sent.tag = 1 /\ sent.nacc = 3 /\ sent.len = 905 /\ pc = "returned"
              => result \notin MalformedInput
        /\ sent.tag = 2 /\ sent.nacc = 2 /\ sent.len = 897 /\ pc = "returned"
              => result \notin MalformedInput
        /\ sent.tag \notin {0, 1, 2} =>
              /\ pc = "returned"
              /\ call.kind = "none"
              /\ result = "InvalidInstructionData"
              /\ ~recovered
              /\ Untouched

C9_Witness ==
    /\ pc = "returned"
    /\ sent.tag \notin {0, 1, 2, NoTag}
    /\ sent.len = SplitDataLen
    /\ result = "InvalidInstructionData"
    /\ \E k \in Keys : owner[Vault(k)] = "program"

\* C10: a Split whose payload after the tag is not exactly 905 bytes long fails
\* with MalformedInput (InvalidInstructionData when it has its three
\* references) before any signature recovery and with nothing changed.
C10_SplitLengthExact ==
    sent.tag = SPLIT_DISCRIMINATOR /\ sent.len # 905 =>
        /\ pc = "returned"
        /\ result \in MalformedInput
        /\ sent.nacc = 3 => result = "InvalidInstructionData"
        /\ ~recovered
        /\ Untouched

C10_Witness ==
    /\ pc = "returned" /\ sent.tag = SPLIT_DISCRIMINATOR
    /\ sent.len = 906 /\ sent.nacc = 3
    /\ result = "InvalidInstructionData"
    /\ ~recovered
    /\ \E k \in Keys : owner[Vault(k)] = "program" /\ lamports[Vault(k)] > RentExemptMinimum

\* C11: a proof over a Close message never passes the address check of a
\* Split, and a proof over a Split message never passes that of a Close,
\* whatever the request's fields and references: such an invocation returns
\* at once, with AuthorizationFailure when it is well-formed, and writes
\* nothing.
C11_NoCrossTransitionProof ==
    /\ pc # "idle" /\ sent.tag = SPLIT_DISCRIMINATOR /\ sent.signedOver = "close"
          => /\ pc = "returned" /\ ~Verified /\ result # "Ok" /\ Untouched
             /\ sent.nacc = 3 /\ sent.len = SplitDataLen => result \in AuthorizationFailure
    /\ pc # "idle" /\ sent.tag = CLOSE_DISCRIMINATOR /\ sent.signedOver = "split"
          => /\ pc = "returned" /\ ~Verified /\ result # "Ok" /\ Untouched
             /\ sent.nacc = 2 /\ sent.len = CloseDataLen => result \in AuthorizationFailure

C11_Witness ==
    /\ pc = "returned" /\ sent.tag = SPLIT_DISCRIMINATOR
    /\ sent.nacc = 3 /\ sent.len = SplitDataLen
    /\ sent.signedOver = "close"
    /\ sent.signer \in Keys
    /\ owner[Vault(sent.signer)] = "program"
    /\ lamports[Vault(sent.signer)] > RentExemptMinimum
    /\ recovered
    /\ result = "MissingRequiredSignature"

\* C12: a Split by its owner of an open record, with an amount within the
\* balance and another open record as refund target, is committed with the
\* remainder added to that record, which stays open; a record refunded into
\* this way passes the address check only under a proof by its own key, and
\* a Close or Split of it by that key is committed and pays out its entire
\* balance.
C12_RolloverKeepsRecordSpendable ==
    /\ /\ pc = "returned" /\ call.kind = "split" /\ Verified /\ sent.authentic
       /\ preOwner[call.vault] = "program"
       /\ preOwner[call.refund] = "program"
       /\ call.refund # call.vault /\ call.split # call.vault
       /\ SignedAmount <= pre[call.vault]
       => /\ Commits
          /\ lamports[call.refund] = pre[call.refund] + (pre[call.vault] - SignedAmount)
                                       + (IF call.split = call.refund THEN SignedAmount ELSE 0)
          /\ owner[call.refund] = "program"
          /\ owner[call.vault] = "system" /\ lamports[call.vault] = 0
    /\ pc # "idle" /\ Verified /\ call.vault \in rolled
          => sent.signer \in Keys /\ Vault(sent.signer) = call.vault
    /\ /\ pc = "returned" /\ Verified /\ sent.authentic
       /\ call.vault \in rolled
       /\ preOwner[call.vault] = "program"
       /\ call.vault \notin {call.split, call.refund}
       /\ call.kind = "split" => SignedAmount <= pre[call.vault]
       => /\ Commits
          /\ SumOver(Accounts \ {call.vault}, lamports)
                = SumOver(Accounts \ {call.vault}, pre) + pre[call.vault]
          /\ \A a \in Accounts \ {call.vault, call.split, call.refund} : lamports[a] = pre[a]
          /\ owner[call.vault] = "system" /\ lamports[call.vault] = 0

C12_Witness ==
    /\ pc = "returned" /\ Verified /\ sent.authentic
    /\ call.vault \in rolled /\ call.vault \notin destroyed
    /\ \E a \in destroyed : a # call.vault
    /\ preOwner[call.vault] = "program"
    /\ pre[call.vault] > RentExemptMinimum
    /\ call.refund = RefundWallet
    /\ result = "Ok"
    /\ lamports[RefundWallet] = pre[RefundWallet] + pre[call.vault]

\* C13: an Open whose target address is not the one derived from the digest
\* and bump of its payload fails, creating no record and debiting no payer;
\* an Open that succeeds names the address its digest and bump derive.
C13_OpenRequiresDerivedAddress ==
    /\ pc = "returned" /\ sent.tag = OPEN_DISCRIMINATOR /\ ~sent.derived
          => result # "Ok" /\ Untouched
    /\ pc = "returned" /\ call.kind = "open" /\ result = "Ok"
          => /\ sent.derived
             /\ owner[call.vault] = "program"

C13_Witness ==
    /\ pc = "returned" /\ sent.tag = OPEN_DISCRIMINATOR
    /\ sent.nacc = 3 /\ sent.len = OpenDataLen
    /\ ~sent.derived
    /\ result = "MissingRequiredSignature"
    /\ lamports[Payer] >= RentExemptMinimum
    /\ \A a \in Targets : owner[a] = "system" /\ lamports[a] = 0

\* C14 as stated: a Split by the owner of an open record, with an amount above
\* the record's balance and three different accounts, returns Ok with the full
\* amount added to the split target, nothing to the refund target, and the
\* record destroyed.
C14_OverdraftCreditsFullAmount ==
    /\ pc = "returned" /\ call.kind = "split" /\ Verified /\ sent.authentic
    /\ preOwner[call.vault] = "program"
    /\ SignedAmount > pre[call.vault]
    /\ Cardinality({call.vault, call.split, call.refund}) = 3
    => /\ result = "Ok"
       /\ lamports[call.split] = pre[call.split] + SignedAmount
       /\ lamports[call.refund] = pre[call.refund]
       /\ lamports[call.vault] = 0 /\ owner[call.vault] = "system"

\* C14 as amended: the same, for an amount that the split target's balance can
\* take without exceeding the largest u64.
C14_OverdraftWithinU64 ==
    /\ pc = "returned" /\ call.kind = "split" /\ Verified /\ sent.authentic
    /\ preOwner[call.vault] = "program"
    /\ SignedAmount > pre[call.vault]
    /\ Cardinality({call.vault, call.split, call.refund}) = 3
    /\ pre[call.split] + SignedAmount <= U64Max
    => /\ result = "Ok"
       /\ lamports[call.split] = pre[call.split] + SignedAmount
       /\ lamports[call.refund] = pre[call.refund]
       /\ lamports[call.vault] = 0 /\ owner[call.vault] = "system"
       /\ SumOver(Accounts \ {call.vault}, lamports)
             > SumOver(Accounts \ {call.vault}, pre) + pre[call.vault]

C14_Witness ==
    /\ pc = "returned" /\ call.kind = "split" /\ Verified /\ sent.authentic
    /\ preOwner[call.vault] = "program"
    /\ pre[call.vault] >= RentExemptMinimum
    /\ SignedAmount > pre[call.vault]
    /\ call.split = SplitWallet /\ call.refund = RefundWallet
    /\ result = "Ok"
    /\ lamports[SplitWallet] = pre[SplitWallet] + SignedAmount
    /\ lamports[RefundWallet] = pre[RefundWallet]

\* C15: a Split with fewer or more than three references returns
\* NotEnoughAccountKeys at once, whatever the length of its payload, with no
\* signature recovery run and nothing written.
C15_ReferenceCountFirst ==
    pc # "idle" /\ sent.tag = SPLIT_DISCRIMINATOR /\ sent.nacc # 3 =>
        /\ pc = "returned"
        /\ result = "NotEnoughAccountKeys"
        /\ ~Verified
        /\ ~recovered
        /\ Untouched

C15_Witness ==
    /\ pc = "returned" /\ sent.tag = SPLIT_DISCRIMINATOR
    /\ sent.nacc = 4 /\ sent.len # SplitDataLen
    /\ result = "NotEnoughAccountKeys"
    /\ ~recovered
    /\ \E k \in Keys : owner[Vault(k)] = "program" /\ lamports[Vault(k)] > RentExemptMinimum

\* C16: a Split of an open record that returns Ok, with an amount within the
\* record's balance, leaves the total held by the record, the split target and
\* the refund target as it was, however the three references alias: what the
\* record held is what the destinations gained.
C16_SplitConservesTotal ==
    /\ pc = "returned" /\ call.kind = "split" /\ Verified /\ result = "Ok"
    /\ preOwner[call.vault] = "program"
    /\ SignedAmount <= pre[call.vault]
    => SumOver({call.vault, call.split, call.refund}, lamports)
          = SumOver({call.vault, call.split, call.refund}, pre)

====
